---- MODULE Spec2Model ----
(***************************************************************************)
(* State-machine model of the Storage Consistency Manager                  *)
(* (src/src/managers/storageConsistencyManager.js) of the Sitecore portal   *)
(* extension: per-key advisory locks with auto-release timers, the         *)
(* in-memory version counter, atomicUpdate with its retry loop, the        *)
(* backup ring and rollback.                                               *)
(*                                                                         *)
(* The event loop is single-threaded: every action below is the code that  *)
(* runs between two suspension points (an await or a timer).  Time is a    *)
(* discrete clock.  Every time stamp is kept relative to the current       *)
(* instant (Date.now() is 0, the past is negative, a timer is due when its *)
(* due time is 0) and Tick shifts them all by one; a timer runs exactly    *)
(* when it is due and the clock does not pass a due timer.  Stamps that    *)
(* are only compared with a bound stop at that bound.                      *)
(***************************************************************************)
EXTENDS Integers, Sequences, FiniteSets, TLC

(* ------------------------------ bounds -------------------------------- *)
NumCallers == 2        \* concurrent callers of the manager
MaxCalls == 2          \* atomicUpdate / rollback calls started in a run
LockTimeout == 2       \* this.lockTimeout, in clock units
RetryDelay == 1        \* this.config.retryDelay, in clock units
PollInterval == 1      \* the delay between two polls of acquireLock
MaxRetriesOpt == 1     \* largest options.maxRetries a caller passes
MaxDestroys == 1       \* destroy() calls in a run
MaxSeqCalls == 4       \* calls started by the sequential caller
MaxTarget == 2         \* largest targetVersion the sequential caller passes
MaxDirect == 2         \* direct operations on the key started in a run
NumIds == 2            \* request ids the network observer hands in
MaxRegistrations == 2  \* registerRequest calls in a run
MaxUpdates == 2        \* updateRequestStatus calls made by callers in a run
MaxShutdowns == 2      \* initiateGracefulShutdown calls in a run
RequestTimeout == 2    \* config.requestTimeout, in clock units
CleanupInterval == 1   \* config.cleanupInterval, in clock units
GraceWait == 1         \* the wait of initiateGracefulShutdown, in clock units
SimpleDeleteDelay == 1 \* the delay before a finished request is deleted
SimpleStaleThreshold == 2  \* staleThreshold of the simple tracker
MaxDedupCalls == 3     \* calls of shouldDeduplicateRequest
DedupWindow == 2       \* DEDUP_WINDOW_MS, in clock units
DedupCleanupInterval == 3  \* CLEANUP_INTERVAL_MS, in clock units
MaxExisting == 2       \* stored organizations given to mergeOrganizations
MaxNewOrgs == 2        \* organizations of one API response
MaxNodes == 2          \* application nodes of one tenants response
MaxTenantEvents == 4   \* responses and renames the tenant data is given
MaxBackupCalls == 7    \* calls of the caller that fills the backup ring
MaxRequestEvents == 2  \* request-start events the interceptor is given

(* ------------------------- program constants -------------------------- *)
BackupRetention == 5   \* this.config.backupRetention
ConfigMaxRetries == 3  \* this.config.maxRetries (LIMITS.MAX_RETRIES)

Callers == 1..NumCallers
SeqCaller == 1
Tags == Callers         \* what an update function can add to the payload
Key == "organizations" \* the storage key the calls work on
MaxHistorySize == 1000 \* config.maxHistorySize (LIMITS.MAX_LOG_ENTRIES)
RequestIds == 1..NumIds
\* the statuses a caller passes to updateRequestStatus
UpdateStatuses == {"completed", "failed", "timeout", "cancelled",
                   "stale_cleanup"}

VARIABLES
  store,                \* chrome.storage.local: key -> persisted record
  locks,                \* this.locks: key -> lockInfo
  timers,               \* pending auto-release timers of acquireLock
  versions,             \* this.versions: key -> number
  pendingTransactions,  \* this.pendingTransactions: ids of active transactions
  transactionSequence,  \* this.transactionSequence
  backups,              \* window._storageBackups for the key
  lockSeq,              \* number of lock ids generated so far
  call,                 \* per caller: position and locals of its call
  started,              \* calls started so far
  succeeded,            \* atomicUpdate calls that returned a success result
  destroyed,            \* destroy() calls so far
  history,              \* version -> payload last persisted with that version
  direct,               \* per direct writer of the key: position and locals
  directStarted,        \* direct operations started so far
  activeRequests,       \* this.activeRequests, in insertion order
  requestHistory,       \* this.requestHistory, in insertion order
  requestSequence,      \* this.requestSequence
  cleanupInProgress,    \* this.cleanupInProgress
  shutdownInitiated,    \* this.shutdownInitiated
  cleanupInterval,      \* this.cleanupInterval: <<due>>, or <<>> once cleared
  requestTimers,        \* pending timers armed by registerRequest
  graceWaits,           \* initiateGracefulShutdown calls in their wait
  shutdownCalls,        \* initiateGracefulShutdown calls so far
  updates,              \* updateRequestStatus calls made by callers so far
  reached,              \* sequence -> the statuses the request was given
  simpleActive,         \* SimpleRequestLifecycleManager.activeRequests
  simpleSequence,       \* SimpleRequestLifecycleManager.requestSequence
  simpleDeletes,        \* pending timers that delete a finished request
  simpleAssigned,       \* the sequence numbers registerRequest has given
  recentRequests,       \* OptimizedRequestInterceptor: hash -> timestamp
  interceptorActive,    \* OptimizedRequestInterceptor.activeRequests
  requestsDeduped,      \* metrics.requestsDeduped
  dedupCleanup,         \* when the interceptor's cleanup interval fires
  dedupResult,          \* what the last shouldDeduplicateRequest returned
  dedupCalls,           \* calls of shouldDeduplicateRequest made so far
  seenRequests,         \* the (method, url, body) of the calls made so far
  accepted,             \* (method, url, body) -> time of its last accepted call
  unswept,              \* recentRequests as it is when no sweep ever runs
  interceptorSequence,  \* OptimizedRequestInterceptor.requestSequence
  inFlight,             \* ids of the requests the browser has not answered
  notified,             \* requestId -> messages sent to the content script
  mergeExisting,        \* mergeOrganizations: the argument existing
  mergeNewOrgs,         \* mergeOrganizations: the argument newOrgs
  merged,               \* mergeOrganizations: the array it returned
  mergeCalled,          \* mergeOrganizations has been called
  organizations,        \* chrome.storage.local: the organizations array
  tenantEvents          \* events of the tenant data handled so far

\* the store and the Storage Consistency Manager
managerVars == <<store, locks, timers, versions, pendingTransactions,
                 transactionSequence, backups, lockSeq, call, started,
                 succeeded, destroyed, history>>

\* the operations that write the key without the manager
directVars == <<direct, directStarted>>

\* the Request Lifecycle Manager
trackerVars == <<activeRequests, requestHistory, requestSequence,
                 cleanupInProgress, shutdownInitiated, cleanupInterval,
                 requestTimers, graceWaits, shutdownCalls, updates, reached>>

\* the SimpleRequestLifecycleManager of background.js
simpleVars == <<simpleActive, simpleSequence, simpleDeletes, simpleAssigned>>

\* the deduplicator of the OptimizedRequestInterceptor
dedupVars == <<recentRequests, interceptorActive, requestsDeduped,
               dedupCleanup, dedupResult, dedupCalls, seenRequests, accepted,
               unswept, interceptorSequence, inFlight, notified>>

\* a call of DataProcessor.mergeOrganizations
mergeVars == <<mergeExisting, mergeNewOrgs, merged, mergeCalled,
               organizations, tenantEvents>>

\* what no method of the Storage Consistency Manager touches
outsideManager == <<directVars, trackerVars, simpleVars, dedupVars, mergeVars>>

vars == <<managerVars, directVars, trackerVars, simpleVars, dedupVars,
          mergeVars>>

(* --------------------------- data helpers ----------------------------- *)
\* Date.now(): stamps are relative to the current instant
now == 0

\* A JavaScript Map restricted to the one key: the empty function or Key :> v
EmptyMap == <<>>
Has(m, k) == k \in DOMAIN m
MapSet(m, k, v) == [x \in (DOMAIN m) \cup {k} |-> IF x = k THEN v ELSE m[x]]
MapDelete(m, k) ==
  IF (DOMAIN m) \ {k} = {} THEN EmptyMap
  ELSE [x \in (DOMAIN m) \ {k} |-> m[x]]

\* currentResult ? (currentResult[key] || {}) : {}   -- {} has no _version
EmptyData == [ver |-> 0, payload |-> {}]

\* updatedData = await updateFunction(copy of currentData): the update
\* functions of the callers add a tag; rollback's returns the backup's data
Apply(fn, payload) == IF fn.kind = "add" THEN payload \cup fn.arg ELSE fn.arg

\* Math.pow(2, n)
RECURSIVE Pow2(_)
Pow2(n) == IF n <= 0 THEN 1 ELSE 2 * Pow2(n - 1)

\* delay = this.config.retryDelay * Math.pow(2, retryCount - 1)
BackoffDelay(retryCount) == RetryDelay * Pow2(retryCount - 1)

(* ------------------------------ backups ------------------------------- *)
\* Array.prototype.sort((a, b) => b.createdAt - a.createdAt): stable,
\* descending by createdAt (insertion of each element after its equals)
RECURSIVE InsertDesc(_, _)
InsertDesc(sorted, b) ==
  IF sorted = <<>> THEN <<b>>
  ELSE IF Head(sorted).createdAt >= b.createdAt
       THEN <<Head(sorted)>> \o InsertDesc(Tail(sorted), b)
       ELSE <<b>> \o sorted

RECURSIVE SortDesc(_)
SortDesc(s) ==
  IF s = <<>> THEN <<>>
  ELSE InsertDesc(SortDesc(SubSeq(s, 1, Len(s) - 1)), s[Len(s)])

\* .slice(0, n)
Slice(s, n) == SubSeq(s, 1, IF Len(s) < n THEN Len(s) ELSE n)

\* storeBackup(backup): push, sort newest first, keep backupRetention
StoreBackup(bs, backup) == Slice(SortDesc(Append(bs, backup)), BackupRetention)

\* createBackup(key, data, version)
CreateBackup(bs, data, version) ==
  StoreBackup(bs, [version |-> version, payload |-> data.payload,
                   createdAt |-> now])

\* backups.find(backup => backup.version === targetVersion): index or 0
FindBackup_Newest(bs, targetVersion) == IF Len(bs) > 0 THEN 1 ELSE 0

FindBackup(bs, targetVersion) ==
  IF \E i \in 1..Len(bs) : bs[i].version = targetVersion
  THEN CHOOSE i \in 1..Len(bs) :
         /\ bs[i].version = targetVersion
         /\ \A j \in 1..(i - 1) : bs[j].version # targetVersion
  ELSE 0

(* --------------------------- call records ----------------------------- *)
NoResult == [status |-> "none", version |-> 0]
NoFn == [kind |-> "add", arg |-> {}]

IdleCall ==
  [pc |-> "idle", op |-> "none", target |-> 0, fn |-> NoFn,
   maxRetries |-> 0, retryCount |-> 0, lockId |-> 0, startTime |-> 0,
   wake |-> 0, txId |-> 0, txStatus |-> "none", cur |-> EmptyData,
   expected |-> <<>>, updated |-> {}, nextVersion |-> 0,
   writeResult |-> "none", result |-> NoResult]

\* the locals of one attempt, out of scope when the attempt is over
ClearAttempt(rec) ==
  [rec EXCEPT !.lockId = 0, !.startTime = 0, !.wake = 0, !.txId = 0,
              !.txStatus = "none", !.cur = EmptyData, !.expected = <<>>,
              !.updated = {}, !.nextVersion = 0, !.writeResult = "none"]

\* a call that has returned or thrown: what its caller holds is the outcome
Finished(rec, status, version) ==
  [IdleCall EXCEPT !.result = [status |-> status, version |-> version]]

(* ------------------------------- locks -------------------------------- *)
\* releaseLock(key, lockId): deletes the lock only when its id matches
ReleaseLock_Never(ls, lockId) == ls

ReleaseLock_Any(ls, lockId) == IF Has(ls, Key) THEN MapDelete(ls, Key) ELSE ls

ReleaseLock(ls, lockId) ==
  IF Has(ls, Key) /\ ls[Key].id = lockId THEN MapDelete(ls, Key) ELSE ls

\* what releaseLock(key, lockId) returns: false when there is no lock or
\* the id does not match, true when it deleted the lock
ReleaseLockReturns(ls, lockId) == Has(ls, Key) /\ ls[Key].id = lockId

\* completeTransaction(transactionId, status): the status set on the
\* transaction object; nothing is marked when the id is not pending
CompleteTransaction(rec, status) ==
  IF rec.txId \in pendingTransactions THEN status ELSE rec.txStatus

\* this.locks.has(key): the condition of the polling loop (line 57)
LockHeld_Never(ls) == FALSE

LockHeld(ls) == Has(ls, Key)

\* acquireLock once no lock is stored (lines 64-81), followed by
\* startTransaction (line 167)
Acquire(c, rec, id) ==
  /\ locks' = MapSet(locks, Key, [id |-> id])
  /\ timers' = timers \cup {[id |-> id, due |-> now + LockTimeout]}
  /\ transactionSequence' = transactionSequence + 1
  /\ pendingTransactions' = pendingTransactions \cup {transactionSequence + 1}
  /\ call' = [call EXCEPT ![c] =
                [rec EXCEPT !.pc = "read", !.lockId = id,
                            !.txId = transactionSequence + 1,
                            !.txStatus = "active"]]

\* entry of acquireLock (lines 52-62): a new lock id; the lock is taken at
\* once when none is stored, otherwise the caller polls
EnterAcquireLock(c, rec) ==
  /\ lockSeq' = lockSeq + 1
  /\ IF ~LockHeld(locks)
     THEN Acquire(c, rec, lockSeq + 1)
     ELSE /\ call' = [call EXCEPT ![c] =
                        [rec EXCEPT !.pc = "waitLock", !.lockId = lockSeq + 1,
                                    !.startTime = now,
                                    !.wake = now + PollInterval]]
          /\ UNCHANGED <<locks, timers, transactionSequence,
                         pendingTransactions>>

\* error instanceof StorageConflictError && onConflict === 'retry'
Retryable_Any(kind) == TRUE

Retryable(kind) == kind = "conflict"

\* retryCount <= maxRetries, after retryCount++  (line 264)
RetryAllowed_Always(retryCount, maxRetries) == TRUE

RetryAllowed(retryCount, maxRetries) == retryCount <= maxRetries

\* the catch block of atomicUpdate (lines 246-280)
Catch(c, rec, kind) ==
  /\ pendingTransactions' = pendingTransactions \ {rec.txId}
  /\ locks' = ReleaseLock(locks, rec.lockId)
  /\ IF Retryable(kind) /\ RetryAllowed(rec.retryCount + 1, rec.maxRetries)
     THEN call' = [call EXCEPT ![c] =
            [ClearAttempt(rec) EXCEPT
               !.pc = "backoff", !.retryCount = rec.retryCount + 1,
               !.wake = now + BackoffDelay(rec.retryCount + 1)]]
     ELSE call' = [call EXCEPT ![c] = Finished(rec, kind, 0)]

(* ------------- operations that write the key directly ---------------- *)
\* SitecoreOrganizationDetector.processOrganizationsData (the merge),
\* OrganizationManager.updateOrganizationName (the custom-name edit) and
\* StorageManager.updateOrganization (the product-group update)
DirectOps ==
  {"processOrganizationsData", "updateOrganizationName", "updateOrganization"}

\* what the operation puts into the organizations it has read
DirectTag(w) ==
  IF w = "processOrganizationsData" THEN NumCallers + 1
  ELSE IF w = "updateOrganizationName" THEN NumCallers + 2
  ELSE NumCallers + 3

IdleDirect == [pc |-> "idle", organizations |-> {}]

(* ------------------------------ actions ------------------------------- *)
Init ==
  /\ store = EmptyMap
  /\ locks = EmptyMap
  /\ timers = {}
  /\ versions = EmptyMap
  /\ pendingTransactions = {}
  /\ transactionSequence = 0
  /\ backups = <<>>
  /\ lockSeq = 0
  /\ call = [c \in Callers |-> IdleCall]
  /\ started = 0
  /\ succeeded = 0
  /\ destroyed = 0
  /\ history = EmptyMap
  /\ direct = [w \in DirectOps |-> IdleDirect]
  /\ directStarted = 0
  /\ activeRequests = <<>>
  /\ requestHistory = <<>>
  /\ requestSequence = 0
  /\ cleanupInProgress = FALSE
  /\ shutdownInitiated = FALSE
  /\ cleanupInterval = <<now + CleanupInterval>>
  /\ requestTimers = {}
  /\ graceWaits = {}
  /\ shutdownCalls = 0
  /\ updates = 0
  /\ reached = EmptyMap
  /\ simpleActive = <<>>
  /\ simpleSequence = 0
  /\ simpleDeletes = {}
  /\ simpleAssigned = {}
  /\ recentRequests = EmptyMap
  /\ interceptorActive = EmptyMap
  /\ requestsDeduped = 0
  /\ dedupCleanup = <<now + DedupCleanupInterval>>
  /\ dedupResult = FALSE
  /\ dedupCalls = 0
  /\ seenRequests = {}
  /\ accepted = EmptyMap
  /\ unswept = EmptyMap
  /\ interceptorSequence = 0
  /\ inFlight = {}
  /\ notified = EmptyMap
  /\ mergeExisting = <<>>
  /\ mergeNewOrgs = <<>>
  /\ merged = <<>>
  /\ mergeCalled = FALSE
  /\ organizations = <<>>
  /\ tenantEvents = 0

\* atomicUpdate(key, updateFunction, options) up to its first suspension
StartAtomicUpdate(c, tag, maxRetries) ==
  /\ call[c].pc = "idle"
  /\ started' = started + 1
  /\ EnterAcquireLock(c, [IdleCall EXCEPT
         !.op = "atomicUpdate", !.fn = [kind |-> "add", arg |-> {tag}],
         !.maxRetries = maxRetries])
  /\ UNCHANGED <<store, versions, backups, succeeded, destroyed, history>>
  /\ UNCHANGED outsideManager

\* rollback(key, targetVersion) up to its first suspension
StartRollback(c, targetVersion) ==
  /\ call[c].pc = "idle"
  /\ started' = started + 1
  /\ LET i == FindBackup(backups, targetVersion)
     IN IF i = 0
        THEN /\ call' = [call EXCEPT ![c] =
                  Finished(IdleCall, "no_backup", 0)]
             /\ UNCHANGED <<lockSeq, locks, timers, transactionSequence,
                            pendingTransactions>>
        ELSE EnterAcquireLock(c, [IdleCall EXCEPT
                 !.op = "rollback", !.target = targetVersion,
                 !.fn = [kind |-> "const", arg |-> backups[i].payload],
                 !.maxRetries = ConfigMaxRetries])
  /\ UNCHANGED <<store, versions, backups, succeeded, destroyed, history>>
  /\ UNCHANGED outsideManager

\* one turn of the polling loop of acquireLock (lines 57-62)
PollLock(c) ==
  /\ call[c].pc = "waitLock"
  /\ call[c].wake = now
  /\ IF ~LockHeld(locks)
     THEN Acquire(c, call[c], call[c].lockId)
     ELSE /\ IF now - call[c].startTime > LockTimeout
             THEN call' = [call EXCEPT ![c] =
                    Finished(call[c], "lock_timeout", 0)]
             ELSE call' = [call EXCEPT ![c].wake = now + PollInterval]
          /\ UNCHANGED <<locks, timers, transactionSequence,
                         pendingTransactions>>
  /\ UNCHANGED <<store, versions, backups, lockSeq, started, succeeded,
                 destroyed, history>>
  /\ UNCHANGED outsideManager

\* currentResult ? (currentResult[key] || {}) : {}  where currentResult is
\* null when validateContext answers that the context is invalid
CurrentData(ctxValid) ==
  IF ctxValid /\ Has(store, Key) THEN store[Key] ELSE EmptyData

\* expectedVersion !== undefined && expectedVersion !== currentVersion
VersionConflict_Never(expectedVersion, currentVersion) == FALSE

VersionConflict(expectedVersion, currentVersion) ==
  expectedVersion # <<>> /\ expectedVersion[1] # currentVersion

\* the read of the current record, the version check and the backup
\* (lines 170-186); ctxValid is what validateContext answers
ReadCurrent(c, ctxValid) ==
  /\ call[c].pc = "read"
  /\ LET currentData == CurrentData(ctxValid)
         currentVersion == currentData.ver
         expectedVersion == IF Has(versions, Key)
                            THEN <<versions[Key]>> ELSE <<>>
         rec == [call[c] EXCEPT !.cur = currentData,
                                !.expected = expectedVersion]
     IN IF VersionConflict(expectedVersion, currentVersion)
        THEN /\ Catch(c, rec, "conflict")
             /\ UNCHANGED backups
        ELSE /\ backups' = CreateBackup(backups, currentData, currentVersion)
             /\ call' = [call EXCEPT ![c] = [rec EXCEPT !.pc = "update"]]
             /\ UNCHANGED <<locks, pendingTransactions>>
  /\ UNCHANGED <<store, timers, versions, transactionSequence, lockSeq,
                 started, succeeded, destroyed, history>>
  /\ UNCHANGED outsideManager

\* getNextVersion(key)
GetNextVersion(vs) == (IF Has(vs, Key) THEN vs[Key] ELSE 0) + 1

\* updateFunction, validateFunction and the version increment
\* (lines 188-203); valid is what validateFunction answers (rollback's
\* always answers valid, no validateFunction counts as valid)
ApplyUpdate(c, valid) ==
  /\ call[c].pc = "update"
  /\ call[c].op = "rollback" => valid
  /\ LET updatedData == Apply(call[c].fn, call[c].cur.payload)
         rec == [call[c] EXCEPT !.updated = updatedData]
     IN IF ~valid
        THEN /\ Catch(c, rec, "validation")
             /\ UNCHANGED versions
        ELSE /\ versions' = MapSet(versions, Key, GetNextVersion(versions))
             /\ call' = [call EXCEPT ![c] =
                  [rec EXCEPT !.pc = "write",
                              !.nextVersion = GetNextVersion(versions)]]
             /\ UNCHANGED <<locks, pendingTransactions>>
  /\ UNCHANGED <<store, timers, transactionSequence, backups, lockSeq,
                 started, succeeded, destroyed, history>>
  /\ UNCHANGED outsideManager

\* what safeStorageOperation(() => chrome.storage.local.set(..)) gives back:
\* the promise of set resolves with no value ("undefined"), a store whose
\* set resolves with a value ("value"), null when the extension context is
\* invalid (nothing is written), or the store's error ("error")
SetOutcomes == {"undefined", "value", "null", "error"}

\* !writeResult  (line 211)
WriteFailed(writeResult) == writeResult \in {"undefined", "null"}

\* the write and the check of its result (lines 205-213)
WriteRecord(c, outcome) ==
  /\ call[c].pc = "write"
  /\ store' = IF outcome \in {"undefined", "value"}
              THEN MapSet(store, Key, [ver |-> call[c].nextVersion,
                                       payload |-> call[c].updated])
              ELSE store
  /\ history' = IF outcome \in {"undefined", "value"}
                THEN MapSet(history, call[c].nextVersion, call[c].updated)
                ELSE history
  /\ LET rec == [call[c] EXCEPT !.writeResult = outcome]
     IN IF outcome = "error"
        THEN Catch(c, rec, "store_error")
        ELSE IF WriteFailed(outcome)
        THEN Catch(c, rec, "write_failed")
        ELSE /\ call' = [call EXCEPT ![c] = [rec EXCEPT !.pc = "verify"]]
             /\ UNCHANGED <<locks, pendingTransactions>>
  /\ UNCHANGED <<timers, versions, transactionSequence, backups, lockSeq,
                 started, succeeded, destroyed>>
  /\ UNCHANGED outsideManager

\* the read-back, and the success path (lines 215-244)
VerifyWrite(c, ctxValid) ==
  /\ call[c].pc = "verify"
  /\ IF ctxValid /\ Has(store, Key) /\ store[Key].ver = call[c].nextVersion
     THEN /\ pendingTransactions' = pendingTransactions \ {call[c].txId}
          /\ locks' = ReleaseLock(locks, call[c].lockId)
          /\ call' = [call EXCEPT ![c] =
               Finished(call[c], "success", call[c].nextVersion)]
          /\ succeeded' = succeeded + 1
     ELSE /\ Catch(c, call[c], "verify_failed")
          /\ UNCHANGED succeeded
  /\ UNCHANGED <<store, timers, versions, transactionSequence, backups,
                 lockSeq, started, destroyed, history>>
  /\ UNCHANGED outsideManager

\* the end of the backoff delay (line 265): the loop starts over at line 166
RetryAfterBackoff(c) ==
  /\ call[c].pc = "backoff"
  /\ call[c].wake = now
  /\ EnterAcquireLock(c, call[c])
  /\ UNCHANGED <<store, versions, backups, started, succeeded, destroyed, history>>
  /\ UNCHANGED outsideManager

\* the auto-release timer of a lock (lines 76-78)
AutoRelease(t) ==
  /\ t \in timers
  /\ t.due = now
  /\ timers' = timers \ {t}
  /\ locks' = ReleaseLock(locks, t.id)
  /\ UNCHANGED <<store, versions, pendingTransactions,
                 transactionSequence, backups, lockSeq, call, started,
                 succeeded, destroyed, history>>
  /\ UNCHANGED outsideManager

\* destroy()
Destroy ==
  /\ destroyed < MaxDestroys
  /\ destroyed' = destroyed + 1
  /\ locks' = EmptyMap
  /\ pendingTransactions' = {}
  /\ versions' = EmptyMap
  /\ UNCHANGED <<store, timers, transactionSequence, backups, lockSeq,
                 call, started, succeeded, history>>
  /\ UNCHANGED outsideManager

\* a timer or delay that is due now
DueNow ==
  \/ \E t \in timers : t.due = now
  \/ \E c \in Callers : call[c].pc \in {"waitLock", "backoff"}
                        /\ call[c].wake = now

\* a stamp one clock unit later; floor is where the stamp stops mattering
Shift(stamp, floor) == IF stamp > floor THEN stamp - 1 ELSE stamp

\* the clock advances by one unit when nothing is due
Tick ==
  /\ ~DueNow
  /\ timers' = {[id |-> t.id, due |-> t.due - 1] : t \in timers}
  /\ backups' = IF backups = <<>> THEN <<>>
                ELSE [i \in 1..Len(backups) |->
                        [backups[i] EXCEPT !.createdAt = Shift(@, -1)]]
  /\ call' = [c \in Callers |->
       IF call[c].pc = "waitLock"
       THEN [call[c] EXCEPT !.wake = @ - 1,
                            !.startTime = Shift(@, -(LockTimeout + 1))]
       ELSE IF call[c].pc = "backoff"
       THEN [call[c] EXCEPT !.wake = @ - 1]
       ELSE call[c]]
  /\ UNCHANGED <<store, locks, versions, pendingTransactions,
                 transactionSequence, lockSeq, started, succeeded, destroyed, history>>
  /\ UNCHANGED outsideManager

\* storageManager.getOrganizations() / chrome.storage.local.get: the
\* operation reads the organizations, taking no lock
DirectGet(w) ==
  /\ directStarted < MaxDirect
  /\ direct[w].pc = "idle"
  /\ directStarted' = directStarted + 1
  /\ direct' = [direct EXCEPT ![w] =
       [pc |-> "loaded",
        organizations |-> IF Has(store, Key) THEN store[Key].payload ELSE {}]]
  /\ UNCHANGED <<managerVars, trackerVars, simpleVars, dedupVars, mergeVars>>

\* storageManager.saveOrganizations(mergedOrgs) / chrome.storage.local.set:
\* the changed organizations are written over the key; the array carries
\* no version.  updateOrganizationName and updateOrganization write only
\* when they found the organization
DirectSet(w) ==
  /\ direct[w].pc = "loaded"
  /\ direct' = [direct EXCEPT ![w] = IdleDirect]
  /\ store' = IF w # "processOrganizationsData" /\ direct[w].organizations = {}
              THEN store
              ELSE MapSet(store, Key,
                     [ver |-> 0,
                      payload |-> direct[w].organizations \cup {DirectTag(w)}])
  /\ UNCHANGED <<locks, timers, versions, pendingTransactions,
                 transactionSequence, backups, lockSeq, call, started,
                 succeeded, destroyed, history, directStarted>>
  /\ UNCHANGED <<trackerVars, simpleVars, dedupVars, mergeVars>>

\* a caller calls atomicUpdate; its update function adds the caller's tag
CallAtomicUpdate(c) ==
  /\ started < MaxCalls
  /\ StartAtomicUpdate(c, c, MaxRetriesOpt)

\* a caller calls rollback
CallRollback(c, targetVersion) ==
  /\ started < MaxCalls
  /\ StartRollback(c, targetVersion)

Next ==
  \/ \E c \in Callers : CallAtomicUpdate(c)
  \/ \E c \in Callers, v \in 0..MaxCalls : CallRollback(c, v)
  \/ \E c \in Callers : PollLock(c)
  \/ \E c \in Callers, ctxValid \in BOOLEAN : ReadCurrent(c, ctxValid)
  \/ \E c \in Callers, valid \in BOOLEAN : ApplyUpdate(c, valid)
  \/ \E c \in Callers, outcome \in SetOutcomes : WriteRecord(c, outcome)
  \/ \E c \in Callers, ctxValid \in BOOLEAN : VerifyWrite(c, ctxValid)
  \/ \E c \in Callers : RetryAfterBackoff(c)
  \/ \E t \in timers : AutoRelease(t)
  \/ Tick

Spec == Init /\ [][Next]_vars

\* the same program with destroy() called on the manager
NextDestroy ==
  \/ Next
  \/ Destroy

SpecDestroy == Init /\ [][NextDestroy]_vars

\* the same program under the event loop's scheduling: a due timer fires,
\* a pending promise of the store or of a callback settles, time passes
Fairness ==
  /\ WF_vars(Tick)
  /\ WF_vars(\E t \in timers : AutoRelease(t))
  /\ \A c \in Callers :
       /\ WF_vars(PollLock(c))
       /\ WF_vars(RetryAfterBackoff(c))
       /\ WF_vars(\E ctxValid \in BOOLEAN : ReadCurrent(c, ctxValid))
       /\ WF_vars(\E valid \in BOOLEAN : ApplyUpdate(c, valid))
       /\ WF_vars(\E outcome \in SetOutcomes : WriteRecord(c, outcome))
       /\ WF_vars(\E ctxValid \in BOOLEAN : VerifyWrite(c, ctxValid))

SpecFair == Init /\ [][Next]_vars /\ Fairness

\* callers of atomicUpdate whose update functions never settle: a lock
\* holder reads the record and then never reaches releaseLock
NextStalled ==
  \/ \E c \in Callers : CallAtomicUpdate(c)
  \/ \E c \in Callers : PollLock(c)
  \/ \E c \in Callers, ctxValid \in BOOLEAN : ReadCurrent(c, ctxValid)
  \/ \E t \in timers : AutoRelease(t)
  \/ Tick

\* only the timers are scheduled
SpecStalled ==
  /\ Init /\ [][NextStalled]_vars
  /\ WF_vars(Tick)
  /\ WF_vars(\E t \in timers : AutoRelease(t))
  /\ \A c \in Callers : WF_vars(PollLock(c))

\* atomicUpdate calls in an extension whose context stays valid, whose
\* update functions validate and whose store never fails
NextHealthy ==
  \/ \E c \in Callers : CallAtomicUpdate(c)
  \/ \E c \in Callers : PollLock(c)
  \/ \E c \in Callers : ReadCurrent(c, TRUE)
  \/ \E c \in Callers : ApplyUpdate(c, TRUE)
  \/ \E c \in Callers, outcome \in {"undefined", "value"} :
       WriteRecord(c, outcome)
  \/ \E c \in Callers : VerifyWrite(c, TRUE)
  \/ \E c \in Callers : RetryAfterBackoff(c)
  \/ \E t \in timers : AutoRelease(t)
  \/ Tick

SpecHealthy == Init /\ [][NextHealthy]_vars

\* one caller that makes its calls one after the other, in an extension
\* whose context stays valid and whose store never fails; the k-th call's
\* update function adds the tag k, so every written payload differs
SeqAtomicUpdate(c) ==
  /\ started < MaxSeqCalls
  /\ StartAtomicUpdate(c, started + 1, MaxRetriesOpt)

SeqRollback(c, targetVersion) ==
  /\ started < MaxSeqCalls
  /\ StartRollback(c, targetVersion)

NextSequential ==
  \/ SeqAtomicUpdate(SeqCaller)
  \/ \E v \in 1..MaxTarget : SeqRollback(SeqCaller, v)
  \/ ReadCurrent(SeqCaller, TRUE)
  \/ \E valid \in BOOLEAN : ApplyUpdate(SeqCaller, valid)
  \/ \E outcome \in {"undefined", "value"} : WriteRecord(SeqCaller, outcome)
  \/ VerifyWrite(SeqCaller, TRUE)
  \/ \E t \in timers : AutoRelease(t)
  \/ Tick

SpecSequential == Init /\ [][NextSequential]_vars

\* the sequential caller with a manager that is destroyed, or constructed
\* anew (a restarted service worker), between or during its calls: the
\* in-memory maps are empty again while the store keeps its record
NextRestart ==
  \/ NextSequential
  \/ Destroy

SpecRestart == Init /\ [][NextRestart]_vars

\* one caller that makes its atomicUpdate calls one after the other, in
\* an extension whose context can become invalid, whose update functions
\* can fail validation and whose store can fail
NextFaulty ==
  \/ SeqAtomicUpdate(SeqCaller)
  \/ \E ctxValid \in BOOLEAN : ReadCurrent(SeqCaller, ctxValid)
  \/ \E valid \in BOOLEAN : ApplyUpdate(SeqCaller, valid)
  \/ \E outcome \in SetOutcomes : WriteRecord(SeqCaller, outcome)
  \/ \E ctxValid \in BOOLEAN : VerifyWrite(SeqCaller, ctxValid)
  \/ RetryAfterBackoff(SeqCaller)
  \/ \E t \in timers : AutoRelease(t)
  \/ Tick

SpecFaulty == Init /\ [][NextFaulty]_vars

\* one caller that makes enough calls, one after the other, to fill the
\* backup ring and push a backup out of it, and that then asks for a
\* rollback to one of the two earliest versions or to a version that was
\* never written; the store never fails
RollbackTargets == {0, 1, MaxBackupCalls + 1}

BackupAtomicUpdate(c) ==
  /\ started < MaxBackupCalls
  /\ StartAtomicUpdate(c, started + 1, MaxRetriesOpt)

BackupRollback(c, targetVersion) ==
  /\ started < MaxBackupCalls
  /\ started > BackupRetention
  /\ StartRollback(c, targetVersion)

NextBackups ==
  \/ BackupAtomicUpdate(SeqCaller)
  \/ \E v \in RollbackTargets : BackupRollback(SeqCaller, v)
  \/ ReadCurrent(SeqCaller, TRUE)
  \/ ApplyUpdate(SeqCaller, TRUE)
  \/ WriteRecord(SeqCaller, "value")
  \/ VerifyWrite(SeqCaller, TRUE)
  \/ \E t \in timers : AutoRelease(t)
  \/ Tick

SpecBackups == Init /\ [][NextBackups]_vars

\* the manager, in the environment without faults, together with the
\* operations that write the key directly
NextDirect ==
  \/ NextHealthy
  \/ \E w \in DirectOps : DirectGet(w)
  \/ \E w \in DirectOps : DirectSet(w)

SpecDirect == Init /\ [][NextDirect]_vars

(* =================== Request Lifecycle Manager ======================== *)
(* src/unnamed/part_007, class RequestLifecycleManager.  A JavaScript Map  *)
(* is a sequence of [key, val] in insertion order.                         *)
OIndex(m, k) ==
  IF \E i \in 1..Len(m) : m[i].key = k
  THEN CHOOSE i \in 1..Len(m) : m[i].key = k
  ELSE 0

\* Map.has, Map.get, Map.set (a known key keeps its place), Map.delete
OHas(m, k) == OIndex(m, k) # 0
OGet(m, k) == m[OIndex(m, k)].val
OSet(m, k, v) ==
  IF OHas(m, k)
  THEN [m EXCEPT ![OIndex(m, k)] = [key |-> k, val |-> v]]
  ELSE Append(m, [key |-> k, val |-> v])
ODelete(m, k) == SelectSeq(m, LAMBDA e : e.key # k)

\* isCompletedStatus(status)
IsCompletedStatus(status) ==
  status \in {"completed", "failed", "timeout", "cancelled", "error"}

\* addToHistory(request)
AddToHistory(h, request) ==
  LET entry == [sequence |-> request.sequence, status |-> request.status,
                completedAt |-> now]
      added == OSet(h, request.id, entry)
  IN IF Len(added) > MaxHistorySize THEN Tail(added) ELSE added

\* the part of the tracker that updateRequestStatus works on
Tracker ==
  [active |-> activeRequests, history |-> requestHistory,
   timers |-> requestTimers, reached |-> reached]

\* completeRequest(requestId)
CompleteRequest(tr, requestId) ==
  IF ~OHas(tr.active, requestId)
  THEN tr
  ELSE LET request == OGet(tr.active, requestId)
       IN [tr EXCEPT
             !.timers = {t \in @ : t.handle # request.timeoutHandle},
             !.history = AddToHistory(@, request),
             !.active = ODelete(@, requestId)]

\* updateRequestStatus(requestId, status): the tracker after the call
UpdateRequestStatus(tr, shutdown, requestId, status) ==
  IF ~OHas(tr.active, requestId)
  THEN tr
  ELSE IF shutdown /\ status # "cancelled"
  THEN tr
  ELSE LET request == [OGet(tr.active, requestId) EXCEPT !.status = status]
           updated == [tr EXCEPT
                         !.active = OSet(@, requestId, request),
                         !.reached[request.sequence] = Append(@, status)]
       IN IF IsCompletedStatus(status)
          THEN CompleteRequest(updated, requestId)
          ELSE updated

\* for (const [requestId, request] of this.activeRequests.entries()) with
\* updateRequestStatus(requestId, status) on the requests that pass the
\* test of the loop; ids are those requests' ids in iteration order (the
\* call for one request changes no other request's record)
RECURSIVE UpdateEach(_, _, _, _)
UpdateEach(tr, shutdown, ids, status) ==
  IF ids = <<>>
  THEN tr
  ELSE UpdateEach(UpdateRequestStatus(tr, shutdown, Head(ids), status),
                  shutdown, Tail(ids), status)

\* the keys of the entries of a Map, in iteration order
OKeys(m) == [i \in 1..Len(m) |-> m[i].key]

SetTracker(tr) ==
  /\ activeRequests' = tr.active
  /\ requestHistory' = tr.history
  /\ requestTimers' = tr.timers
  /\ reached' = tr.reached

\* ++this.requestSequence
NextSequence_Same(requestSequence_) == requestSequence_

NextSequence(requestSequence_) == requestSequence_ + 1

\* registerRequest(requestId, requestInfo)
RegisterRequest(requestId) ==
  /\ requestSequence < MaxRegistrations
  /\ LET sequence == NextSequence(requestSequence)
         request == [id |-> requestId, sequence |-> sequence,
                     timestamp |-> now, status |-> "pending",
                     timeoutHandle |-> sequence]
     IN /\ requestSequence' = sequence
        /\ requestTimers' = requestTimers \cup
             {[handle |-> sequence, requestId |-> requestId,
               due |-> now + RequestTimeout]}
        /\ activeRequests' = OSet(activeRequests, requestId, request)
        /\ reached' = MapSet(reached, sequence, <<>>)
  /\ UNCHANGED <<requestHistory, cleanupInProgress, shutdownInitiated,
                 cleanupInterval, graceWaits, shutdownCalls, updates>>
  /\ UNCHANGED <<managerVars, directVars, simpleVars, dedupVars, mergeVars>>

\* a caller calls updateRequestStatus(requestId, status)
CallUpdateRequestStatus(requestId, status) ==
  /\ updates < MaxUpdates
  /\ updates' = updates + 1
  /\ SetTracker(UpdateRequestStatus(Tracker, shutdownInitiated,
                                    requestId, status))
  /\ UNCHANGED <<requestSequence, cleanupInProgress, shutdownInitiated,
                 cleanupInterval, graceWaits, shutdownCalls>>
  /\ UNCHANGED <<managerVars, directVars, simpleVars, dedupVars, mergeVars>>

\* the timer of a request fires: handleRequestTimeout(requestId)
HandleRequestTimeout(t) ==
  /\ t \in requestTimers
  /\ t.due = now
  /\ LET fired == [Tracker EXCEPT !.timers = @ \ {t}]
     IN SetTracker(UpdateRequestStatus(fired, shutdownInitiated,
                                       t.requestId, "timeout"))
  /\ UNCHANGED <<requestSequence, cleanupInProgress, shutdownInitiated,
                 cleanupInterval, graceWaits, shutdownCalls, updates>>
  /\ UNCHANGED <<managerVars, directVars, simpleVars, dedupVars, mergeVars>>

\* cleanupHistory(): maxAge is ten cleanup intervals
CleanupHistory(h) ==
  SelectSeq(h, LAMBDA e : ~(e.val.completedAt < now - CleanupInterval * 10))

\* age > staleThreshold && request.status === 'pending'
IsStale(request) ==
  /\ now - request.timestamp > RequestTimeout * 2
  /\ request.status = "pending"

\* request.status === 'pending', the test of the shutdown loop
IsPending_None(request) == FALSE

IsPending(request) == request.status = "pending"

\* the interval timer fires: performSafeCleanup()
PerformSafeCleanup ==
  /\ cleanupInterval # <<>>
  /\ cleanupInterval[1] = now
  /\ cleanupInterval' = <<now + CleanupInterval>>
  /\ IF cleanupInProgress
     THEN UNCHANGED <<activeRequests, requestHistory, requestTimers, reached>>
     ELSE LET swept == UpdateEach(Tracker, shutdownInitiated,
                                  OKeys(SelectSeq(activeRequests,
                                                  LAMBDA e : IsStale(e.val))),
                                  "stale_cleanup")
          IN SetTracker([swept EXCEPT !.history = CleanupHistory(@)])
  /\ cleanupInProgress' = FALSE
  /\ UNCHANGED <<requestSequence, shutdownInitiated, graceWaits,
                 shutdownCalls, updates>>
  /\ UNCHANGED <<managerVars, directVars, simpleVars, dedupVars, mergeVars>>

\* initiateGracefulShutdown() up to its wait; cancelled is the sequence
\* numbers of the requests the call found pending
InitiateGracefulShutdown ==
  /\ shutdownCalls < MaxShutdowns
  /\ shutdownCalls' = shutdownCalls + 1
  /\ shutdownInitiated' = TRUE
  /\ cleanupInterval' = <<>>
  /\ LET ids == OKeys(SelectSeq(activeRequests,
                                LAMBDA e : IsPending(e.val)))
     IN /\ SetTracker(UpdateEach(Tracker, TRUE, ids, "cancelled"))
        /\ graceWaits' = graceWaits \cup
             {[call |-> shutdownCalls + 1, due |-> now + GraceWait,
               cancelled |-> {OGet(activeRequests, ids[i]).sequence :
                                i \in 1..Len(ids)}]}
  /\ UNCHANGED <<requestSequence, cleanupInProgress, updates>>
  /\ UNCHANGED <<managerVars, directVars, simpleVars, dedupVars, mergeVars>>

\* the wait of initiateGracefulShutdown is over: the call completes
GraceOver(g) ==
  /\ g \in graceWaits
  /\ g.due = now
  /\ graceWaits' = graceWaits \ {g}
  /\ UNCHANGED <<activeRequests, requestHistory, requestSequence,
                 cleanupInProgress, shutdownInitiated, cleanupInterval,
                 requestTimers, shutdownCalls, updates, reached>>
  /\ UNCHANGED <<managerVars, directVars, simpleVars, dedupVars, mergeVars>>

\* a timer of the tracker that is due now
TrackerDueNow ==
  \/ \E t \in requestTimers : t.due = now
  \/ \E g \in graceWaits : g.due = now
  \/ cleanupInterval # <<>> /\ cleanupInterval[1] = now

\* the tracker's clock advances by one unit when nothing is due
TrackerTick ==
  /\ ~TrackerDueNow
  /\ requestTimers' = {[t EXCEPT !.due = @ - 1] : t \in requestTimers}
  /\ graceWaits' = {[g EXCEPT !.due = @ - 1] : g \in graceWaits}
  /\ cleanupInterval' = IF cleanupInterval = <<>> THEN <<>>
                        ELSE <<cleanupInterval[1] - 1>>
  /\ activeRequests' =
       IF activeRequests = <<>> THEN <<>>
       ELSE [i \in 1..Len(activeRequests) |->
              [activeRequests[i] EXCEPT
                 !.val.timestamp = Shift(@, -(RequestTimeout * 2 + 1))]]
  /\ requestHistory' =
       IF requestHistory = <<>> THEN <<>>
       ELSE [i \in 1..Len(requestHistory) |->
              [requestHistory[i] EXCEPT
                 !.val.completedAt = Shift(@, -(CleanupInterval * 10 + 1))]]
  /\ UNCHANGED <<requestSequence, cleanupInProgress, shutdownInitiated,
                 shutdownCalls, updates, reached>>
  /\ UNCHANGED <<managerVars, directVars, simpleVars, dedupVars, mergeVars>>

NextTracker ==
  \/ \E requestId \in RequestIds : RegisterRequest(requestId)
  \/ \E requestId \in RequestIds, status \in UpdateStatuses :
       CallUpdateRequestStatus(requestId, status)
  \/ \E t \in requestTimers : HandleRequestTimeout(t)
  \/ PerformSafeCleanup
  \/ InitiateGracefulShutdown
  \/ \E g \in graceWaits : GraceOver(g)
  \/ TrackerTick

SpecTracker == Init /\ [][NextTracker]_vars

\* the event loop runs the timers that are due, and time passes
TrackerFairness ==
  /\ WF_vars(TrackerTick)
  /\ WF_vars(PerformSafeCleanup)
  /\ WF_vars(\E t \in requestTimers : HandleRequestTimeout(t))
  /\ WF_vars(\E g \in graceWaits : GraceOver(g))

SpecTrackerFair == SpecTracker /\ TrackerFairness

(* ================= SimpleRequestLifecycleManager ====================== *)
(* src/src/background.js, the tracker the service worker uses             *)
\* registerRequest(requestId, requestInfo): what the call does to the
\* tracker
SimpleRegister(requestId) ==
  LET sequence == NextSequence(simpleSequence)
  IN /\ simpleSequence' = sequence
     /\ simpleAssigned' = simpleAssigned \cup {sequence}
     /\ simpleActive' = OSet(simpleActive, requestId,
          [id |-> requestId, sequence |-> sequence, timestamp |-> now,
           status |-> "pending"])
     /\ UNCHANGED simpleDeletes

\* a caller calls registerRequest(requestId, requestInfo)
SimpleRegisterRequest(requestId) ==
  /\ simpleSequence < MaxRegistrations
  /\ SimpleRegister(requestId)
  /\ UNCHANGED <<managerVars, directVars, trackerVars, dedupVars, mergeVars>>

\* ['completed', 'failed', 'timeout', 'cancelled'].includes(status)
SimpleIsFinished(status) ==
  status \in {"completed", "failed", "timeout", "cancelled"}

\* updateRequestStatus(requestId, status)
SimpleUpdateRequestStatus(requestId, status) ==
  /\ IF OHas(simpleActive, requestId)
     THEN /\ simpleActive' = OSet(simpleActive, requestId,
               [OGet(simpleActive, requestId) EXCEPT !.status = status])
          /\ simpleDeletes' =
               IF SimpleIsFinished(status)
               THEN simpleDeletes \cup
                      {[requestId |-> requestId,
                        due |-> now + SimpleDeleteDelay]}
               ELSE simpleDeletes
     ELSE UNCHANGED <<simpleActive, simpleDeletes>>
  /\ UNCHANGED <<simpleSequence, simpleAssigned>>
  /\ UNCHANGED <<managerVars, directVars, trackerVars, dedupVars, mergeVars>>

\* setTimeout(() => this.activeRequests.delete(requestId), 5000) fires
SimpleDelete(t) ==
  /\ t \in simpleDeletes
  /\ t.due = now
  /\ simpleDeletes' = simpleDeletes \ {t}
  /\ simpleActive' = ODelete(simpleActive, t.requestId)
  /\ UNCHANGED <<simpleSequence, simpleAssigned>>
  /\ UNCHANGED <<managerVars, directVars, trackerVars, dedupVars, mergeVars>>

\* performSafeCleanup(), called from the service worker's interval
SimplePerformSafeCleanup ==
  /\ simpleActive' =
       SelectSeq(simpleActive,
                 LAMBDA e : ~(now - e.val.timestamp > SimpleStaleThreshold))
  /\ UNCHANGED <<simpleSequence, simpleDeletes, simpleAssigned>>
  /\ UNCHANGED <<managerVars, directVars, trackerVars, dedupVars, mergeVars>>

\* hasActiveRequests(), the same in both trackers
HasActiveRequests(active) == Len(active) > 0

\* the clock of the simple tracker advances when no timer is due
SimpleTick ==
  /\ \A t \in simpleDeletes : t.due # now
  /\ simpleDeletes' = {[t EXCEPT !.due = @ - 1] : t \in simpleDeletes}
  /\ simpleActive' =
       IF simpleActive = <<>> THEN <<>>
       ELSE [i \in 1..Len(simpleActive) |->
              [simpleActive[i] EXCEPT
                 !.val.timestamp = Shift(@, -(SimpleStaleThreshold + 1))]]
  /\ UNCHANGED <<simpleSequence, simpleAssigned>>
  /\ UNCHANGED <<managerVars, directVars, trackerVars, dedupVars, mergeVars>>

NextSimple ==
  \/ \E requestId \in RequestIds : SimpleRegisterRequest(requestId)
  \/ \E requestId \in RequestIds, status \in UpdateStatuses :
       SimpleUpdateRequestStatus(requestId, status)
  \/ \E t \in simpleDeletes : SimpleDelete(t)
  \/ SimplePerformSafeCleanup
  \/ SimpleTick

SpecSimple == Init /\ [][NextSimple]_vars

(* ============ OptimizedRequestInterceptor: deduplication ============== *)
(* src/unnamed/part_007. Strings are sequences of character codes.        *)
GET == <<71, 69, 84>>
POST == <<80, 79, 83, 84>>
Methods == {GET, POST}
Urls == {<<97>>}
\* a request body; <<>> is no body (null)
Bodies == {<<>>, <<120>>, <<121>>}
Requests == [method : Methods, url : Urls, body : Bodies]

\* hashInput of generateRequestHash: `${method}:${url}`, and `:${body}`
\* when there is a body and the method is POST
HashInput(url, method, body) ==
  method \o <<58>> \o url
    \o (IF body # <<>> /\ method = POST THEN <<58>> \o body ELSE <<>>)

\* hash = ((hash << 5) - hash) + char; hash = hash & hash, on the two
\* 16-bit halves of the 32-bit integer
HashStep(hash, char) ==
  LET lo == hash.lo * 31 + char
      hi == hash.hi * 31 + lo \div 65536
  IN [hi |-> hi % 65536, lo |-> lo % 65536]

RECURSIVE HashLoop(_, _)
HashLoop(hash, hashInput) ==
  IF hashInput = <<>> THEN hash
  ELSE HashLoop(HashStep(hash, Head(hashInput)), Tail(hashInput))

\* the signed 32-bit integer with these halves
ToInt32(hash) ==
  IF hash.hi >= 32768 THEN (hash.hi - 65536) * 65536 + hash.lo
  ELSE hash.hi * 65536 + hash.lo

RECURSIVE Digits36(_)
Digits36(n) ==
  IF n < 36 THEN <<n>> ELSE Append(Digits36(n \div 36), n % 36)

\* Number.prototype.toString(36): a sign and the digits of the magnitude
ToString36(n) ==
  IF n >= 0 THEN [negative |-> FALSE, digits |-> Digits36(n)]
  ELSE IF n = -2147483647 - 1
  THEN [negative |-> TRUE, digits |-> <<35, 18, 20, 0, 35, 20>>]
  ELSE [negative |-> TRUE, digits |-> Digits36(-n)]

\* generateRequestHash(url, method, body)
GenerateRequestHash(url, method, body) ==
  ToString36(ToInt32(HashLoop([hi |-> 0, lo |-> 0],
                              HashInput(url, method, body))))

\* lastSeen && (now - lastSeen) < this.DEDUP_WINDOW_MS
IsRecent(recent, hash) ==
  Has(recent, hash) /\ now - recent[hash] < DedupWindow

\* this.recentRequests.set(hash, now), which a deduplicated call skips
RecordSeen_Always(recent, hash, deduplicated) == MapSet(recent, hash, now)

RecordSeen(recent, hash, deduplicated) ==
  IF deduplicated THEN recent ELSE MapSet(recent, hash, now)

\* shouldDeduplicateRequest(generateRequestHash(url, method, body)): what
\* the call does to the deduplicator
Deduplicate(request) ==
  /\ dedupCalls < MaxDedupCalls
  /\ dedupCalls' = dedupCalls + 1
  /\ LET hash == GenerateRequestHash(request.url, request.method,
                                     request.body)
         deduplicated == IsRecent(recentRequests, hash)
     IN /\ requestsDeduped' =
             IF deduplicated THEN requestsDeduped + 1 ELSE requestsDeduped
        /\ recentRequests' = RecordSeen(recentRequests, hash, deduplicated)
        /\ dedupResult' = deduplicated
        /\ accepted' =
             IF deduplicated THEN accepted ELSE MapSet(accepted, request, now)
        /\ unswept' = RecordSeen(unswept, hash, IsRecent(unswept, hash))
  /\ seenRequests' = seenRequests \cup {request}

\* a call of shouldDeduplicateRequest by itself
ShouldDeduplicateRequest(request) ==
  /\ Deduplicate(request)
  /\ UNCHANGED <<interceptorActive, dedupCleanup, interceptorSequence,
                 inFlight, notified>>
  /\ UNCHANGED <<managerVars, directVars, trackerVars, simpleVars,
                 mergeVars>>

\* a map without the keys of a set
Without_All(m, keys) == EmptyMap

Without(m, keys) ==
  IF (DOMAIN m) \ keys = {} THEN EmptyMap
  ELSE [k \in (DOMAIN m) \ keys |-> m[k]]

\* the cleanup interval fires: cleanupOldRequests()
CleanupOldRequests ==
  /\ dedupCleanup[1] = now
  /\ dedupCleanup' = <<now + DedupCleanupInterval>>
  /\ LET cutoff == now - DedupWindow * 2
     IN /\ recentRequests' =
             Without(recentRequests,
                     {hash \in DOMAIN recentRequests :
                        recentRequests[hash] < cutoff})
        /\ interceptorActive' =
             Without(interceptorActive,
                     {requestId \in DOMAIN interceptorActive :
                        interceptorActive[requestId].timestamp < cutoff})
  /\ UNCHANGED <<requestsDeduped, dedupResult, dedupCalls, seenRequests,
                 accepted, unswept, interceptorSequence, inFlight, notified>>
  /\ UNCHANGED <<managerVars, directVars, trackerVars, simpleVars,
                 mergeVars>>

\* the clock of the interceptor advances when its interval is not due
DedupTick ==
  /\ dedupCleanup[1] # now
  /\ dedupCleanup' = <<dedupCleanup[1] - 1>>
  /\ recentRequests' =
       [hash \in DOMAIN recentRequests |->
          Shift(recentRequests[hash], -(DedupWindow * 2 + 1))]
  /\ interceptorActive' =
       [requestId \in DOMAIN interceptorActive |->
          [interceptorActive[requestId] EXCEPT
             !.timestamp = Shift(@, -(DedupWindow * 2 + 1))]]
  /\ accepted' =
       [request \in DOMAIN accepted |-> Shift(accepted[request], -DedupWindow)]
  /\ unswept' =
       [hash \in DOMAIN unswept |->
          Shift(unswept[hash], -(DedupWindow * 2 + 1))]
  /\ UNCHANGED <<requestsDeduped, dedupResult, dedupCalls, seenRequests,
                 interceptorSequence, inFlight, notified>>
  /\ UNCHANGED <<managerVars, directVars, trackerVars, simpleVars,
                 mergeVars>>

NextDedup ==
  \/ \E request \in Requests : ShouldDeduplicateRequest(request)
  \/ CleanupOldRequests
  \/ DedupTick

SpecDedup == Init /\ [][NextDedup]_vars

(* ====== OptimizedRequestInterceptor: request and response events ====== *)
(* src/unnamed/part_007 with the service worker of src/unnamed/part_006,   *)
(* whose requestLifecycleManager is a SimpleRequestLifecycleManager. The   *)
(* browser gives every request its own requestId and reports one response  *)
(* for it; the requests come from a tab and match a pattern.               *)
\* details.statusCode of a response
StatusCodes == {200, 500}

\* processOrganizationsResponse / processGraphQLResponse: one more
\* chrome.tabs.sendMessage for the request
Notify(sent, requestId) ==
  MapSet(sent, requestId,
         (IF Has(sent, requestId) THEN sent[requestId] ELSE 0) + 1)

\* requestLifecycleManager.registerRequest(details.requestId, ...) of
\* handleRequest, reached only by a request that was not deduplicated
RegisterAccepted_Always(requestId, deduplicated) == SimpleRegister(requestId)

RegisterAccepted(requestId, deduplicated) ==
  IF deduplicated THEN UNCHANGED simpleVars ELSE SimpleRegister(requestId)

\* onBeforeRequest: handleRequest(details) for a request with a new id
HandleRequest(request) ==
  /\ dedupCalls < MaxRequestEvents
  /\ Deduplicate(request)
  /\ LET requestId == dedupCalls + 1
         deduplicated ==
           IsRecent(recentRequests,
                    GenerateRequestHash(request.url, request.method,
                                        request.body))
     IN /\ inFlight' = inFlight \cup {requestId}
        /\ interceptorSequence' =
             IF deduplicated THEN interceptorSequence
             ELSE interceptorSequence + 1
        /\ interceptorActive' =
             IF deduplicated THEN interceptorActive
             ELSE MapSet(interceptorActive, requestId,
                         [timestamp |-> now,
                          sequence |-> interceptorSequence + 1])
        /\ RegisterAccepted(requestId, deduplicated)
  /\ UNCHANGED <<dedupCleanup, notified>>
  /\ UNCHANGED <<managerVars, directVars, trackerVars, mergeVars>>

\* onResponseStarted: handleResponse(details) for a request in flight
HandleResponse(requestId, statusCode) ==
  /\ requestId \in inFlight
  /\ inFlight' = inFlight \ {requestId}
  /\ notified' = IF Has(interceptorActive, requestId) /\ statusCode = 200
                 THEN Notify(notified, requestId)
                 ELSE notified
  /\ UNCHANGED <<recentRequests, interceptorActive, requestsDeduped,
                 dedupCleanup, dedupResult, dedupCalls, seenRequests,
                 accepted, unswept, interceptorSequence>>
  /\ UNCHANGED <<managerVars, directVars, trackerVars, simpleVars,
                 mergeVars>>

NextInterceptor ==
  \/ \E request \in Requests : HandleRequest(request)
  \/ \E requestId \in inFlight, statusCode \in StatusCodes :
       HandleResponse(requestId, statusCode)
  \/ CleanupOldRequests
  \/ DedupTick

SpecInterceptor == Init /\ [][NextInterceptor]_vars

\* both trackers under calls of their methods alone (no timer fires): what
\* registerRequest assigns does not depend on time. Requests are reported
\* completed, as the service worker does (background.js line 284)
NextRegistrations ==
  \/ \E requestId \in RequestIds : RegisterRequest(requestId)
  \/ \E requestId \in RequestIds :
       CallUpdateRequestStatus(requestId, "completed")
  \/ InitiateGracefulShutdown
  \/ \E requestId \in RequestIds : SimpleRegisterRequest(requestId)
  \/ \E requestId \in RequestIds :
       SimpleUpdateRequestStatus(requestId, "completed")

SpecRegistrations == Init /\ [][NextRegistrations]_vars

(* ================= DataProcessor.mergeOrganizations =================== *)
(* src/unnamed/part_004. A field a record does not have reads undefined;  *)
(* the value of an optional field is Undefined or Some(value).            *)
Undefined == <<>>
Some(value) == <<value>>
OrgIds == {"org1", "org2"}

\* an organization as processOrganizationsResponse builds it from the API
\* response: it has no customName, productGroups or lastSubsiteUpdate
NewOrgs ==
  [id : OrgIds, name : {"name1", "name2"}, customName : {Undefined},
   productGroups : {Undefined}, lastSubsiteUpdate : {Undefined}]

\* an organization as it is stored
StoredOrgs ==
  [id : OrgIds, name : {"name0"}, customName : {Undefined, Some("custom")},
   productGroups : {Undefined, Some(<<"group">>)},
   lastSubsiteUpdate : {Undefined, Some("2024")}]

\* the arrays of at most n elements of a set
ArraysOf(S, n) == UNION {[1..len -> S] : len \in 0..n}

\* merged.findIndex(org => org.id === newOrg.id), counted from 1; 0 is -1
FindIndex_None(array, id) == 0

FindIndex(array, id) ==
  IF \E i \in 1..Len(array) : array[i].id = id
  THEN CHOOSE i \in 1..Len(array) :
         /\ array[i].id = id
         /\ \A j \in 1..(i - 1) : array[j].id # id
  ELSE 0

\* { ...newOrg, customName: old.customName,
\*   productGroups: old.productGroups || [],
\*   lastSubsiteUpdate: old.lastSubsiteUpdate }
UpdateExisting_Incoming(newOrg, old) == newOrg

UpdateExisting(newOrg, old) ==
  [newOrg EXCEPT
     !.customName = old.customName,
     !.productGroups =
        IF old.productGroups = Undefined THEN Some(<<>>)
        ELSE old.productGroups,
     !.lastSubsiteUpdate = old.lastSubsiteUpdate]

\* { ...newOrg, productGroups: [] }
AddNew(newOrg) == [newOrg EXCEPT !.productGroups = Some(<<>>)]

\* const merged = [...existing]
CopyOf_Empty(existing) == <<>>

CopyOf(existing) == existing

\* the loop of mergeOrganizations over newOrgs
RECURSIVE MergeLoop(_, _)
MergeLoop(array, newOrgs) ==
  IF newOrgs = <<>> THEN array
  ELSE LET newOrg == Head(newOrgs)
           existingIndex == FindIndex(array, newOrg.id)
       IN MergeLoop(
            IF existingIndex >= 1
            THEN [array EXCEPT
                    ![existingIndex] = UpdateExisting(newOrg, @)]
            ELSE Append(array, AddNew(newOrg)),
            Tail(newOrgs))

\* DataProcessor.mergeOrganizations(existing, newOrgs)
MergeOrganizations(existing, newOrgs) == MergeLoop(CopyOf(existing), newOrgs)

\* a call of mergeOrganizations with the stored organizations and the
\* organizations of a response
CallMergeOrganizations ==
  /\ ~mergeCalled
  /\ \E existing \in ArraysOf(StoredOrgs, MaxExisting),
        newOrgs \in ArraysOf(NewOrgs, MaxNewOrgs) :
       /\ mergeExisting' = existing
       /\ mergeNewOrgs' = newOrgs
       /\ merged' = MergeOrganizations(existing, newOrgs)
  /\ mergeCalled' = TRUE
  /\ UNCHANGED <<organizations, tenantEvents>>
  /\ UNCHANGED <<managerVars, directVars, trackerVars, simpleVars,
                 dedupVars>>

NextMerge == CallMergeOrganizations

SpecMerge == Init /\ [][NextMerge]_vars

(* ------------------- the tenants of an organization ------------------- *)
TenantIds == {"tenant1", "tenant2"}

ProductNames == {"xmcloud", "cdp"}

CustomNames == {"custom"}

\* a node of data.user.applications.nodes; action is the name of its first
\* action, if it has one
Nodes ==
  [id : TenantIds, name : {"tenant"}, organizationId : OrgIds,
   action : {Undefined} \cup {Some(productName) : productName \in ProductNames}]

\* the responses: every application is listed once
NodeArrays ==
  {nodes \in ArraysOf(Nodes, MaxNodes) :
     \A i, j \in 1..Len(nodes) : nodes[i].id = nodes[j].id => i = j}

\* the organizations of a response the detector saves
OrganizationArrays == ArraysOf({org \in NewOrgs : org.name = "name1"}, 1)

\* the index of productGroups[productName] among the groups, 0 if missing
GroupIndex(groups, productName) ==
  IF \E i \in 1..Len(groups) : groups[i].productName = productName
  THEN CHOOSE i \in 1..Len(groups) : groups[i].productName = productName
  ELSE 0

\* the tenant processTenantsData builds from a node and validateTenantData
\* returns: a node has no customName
TenantData(node) == [id |-> node.id, name |-> node.name, customName |-> Undefined]

\* the loop of processTenantsData over the nodes
RECURSIVE GroupNodes(_, _, _)
GroupNodes(groups, nodes, currentOrgId) ==
  IF nodes = <<>> THEN groups
  ELSE LET node == Head(nodes)
       IN IF \/ (currentOrgId # Undefined
                 /\ node.organizationId # currentOrgId[1])
             \/ node.action = Undefined
          THEN GroupNodes(groups, Tail(nodes), currentOrgId)
          ELSE LET productName == node.action[1]
                   withGroup ==
                     IF GroupIndex(groups, productName) = 0
                     THEN Append(groups, [productName |-> productName,
                                          tenants |-> <<>>])
                     ELSE groups
                   index == GroupIndex(withGroup, productName)
               IN GroupNodes(
                    [withGroup EXCEPT
                       ![index].tenants = Append(@, TenantData(node))],
                    Tail(nodes), currentOrgId)

\* StorageManager.updateOrganization(orgId, {productGroups, lastSubsiteUpdate}):
\* the array it saves; an unknown organization leaves it alone
UpdateOrganization(orgs, orgId, productGroups, lastSubsiteUpdate) ==
  LET orgIndex == FindIndex(orgs, orgId)
  IN IF orgIndex >= 1
     THEN [orgs EXCEPT
             ![orgIndex] = [@ EXCEPT
                !.productGroups = Some(productGroups),
                !.lastSubsiteUpdate = Some(lastSubsiteUpdate)]]
     ELSE orgs

\* the index of the first group that has the tenant, 0 if none has
GroupOfTenant(groups, tenantId) ==
  IF \E i \in 1..Len(groups) : FindIndex(groups[i].tenants, tenantId) >= 1
  THEN CHOOSE i \in 1..Len(groups) :
         /\ FindIndex(groups[i].tenants, tenantId) >= 1
         /\ \A j \in 1..(i - 1) : FindIndex(groups[j].tenants, tenantId) = 0
  ELSE 0

\* the groups of the stored organization, <<>> if it has none
ProductGroupsOf(orgs, orgId) ==
  LET orgIndex == FindIndex(orgs, orgId)
  IN IF orgIndex >= 1 /\ orgs[orgIndex].productGroups # Undefined
     THEN orgs[orgIndex].productGroups[1]
     ELSE <<>>

\* processOrganizationsData(responseData): merge the response into the
\* stored organizations and save
ProcessOrganizationsData(processedOrgs) ==
  /\ tenantEvents < MaxTenantEvents
  /\ tenantEvents' = tenantEvents + 1
  /\ organizations' =
       IF processedOrgs = <<>> THEN organizations
       ELSE MergeOrganizations(organizations, processedOrgs)
  /\ UNCHANGED <<mergeExisting, mergeNewOrgs, merged, mergeCalled>>
  /\ UNCHANGED <<managerVars, directVars, trackerVars, simpleVars,
                 dedupVars>>

\* processTenantsData(responseData) of the detector of a page whose
\* organization is currentOrgId, with saveGroupedSubsites
ProcessTenantsData(currentOrgId, nodes) ==
  /\ tenantEvents < MaxTenantEvents
  /\ tenantEvents' = tenantEvents + 1
  /\ LET groupedSubsites == GroupNodes(<<>>, nodes, currentOrgId)
     IN organizations' =
          IF Len(groupedSubsites) > 0 /\ currentOrgId # Undefined
          THEN UpdateOrganization(organizations, currentOrgId[1],
                                  groupedSubsites, tenantEvents + 1)
          ELSE organizations
  /\ UNCHANGED <<mergeExisting, mergeNewOrgs, merged, mergeCalled>>
  /\ UNCHANGED <<managerVars, directVars, trackerVars, simpleVars,
                 dedupVars>>

\* OrganizationManager.updateTenantName(orgId, tenantId, customName);
\* customName is Undefined for null
UpdateTenantName(orgId, tenantId, customName) ==
  /\ tenantEvents < MaxTenantEvents
  /\ tenantEvents' = tenantEvents + 1
  /\ LET orgIndex == FindIndex(organizations, orgId)
         groups == ProductGroupsOf(organizations, orgId)
         groupIndex == GroupOfTenant(groups, tenantId)
     IN organizations' =
          IF orgIndex >= 1 /\ groupIndex >= 1
          THEN LET tenantIndex ==
                     FindIndex(groups[groupIndex].tenants, tenantId)
               IN [organizations EXCEPT
                     ![orgIndex].productGroups =
                        Some([groups EXCEPT
                                ![groupIndex].tenants[tenantIndex].customName =
                                   customName])]
          ELSE organizations
  /\ UNCHANGED <<mergeExisting, mergeNewOrgs, merged, mergeCalled>>
  /\ UNCHANGED <<managerVars, directVars, trackerVars, simpleVars,
                 dedupVars>>

NextTenants ==
  \/ \E processedOrgs \in OrganizationArrays :
       ProcessOrganizationsData(processedOrgs)
  \/ \E currentOrgId \in {Undefined} \cup {Some(orgId) : orgId \in OrgIds},
        nodes \in NodeArrays :
       ProcessTenantsData(currentOrgId, nodes)
  \/ \E orgId \in OrgIds, tenantId \in TenantIds,
        customName \in {Undefined}
                         \cup {Some(name) : name \in CustomNames} :
       UpdateTenantName(orgId, tenantId, customName)

SpecTenants == Init /\ [][NextTenants]_vars

(* ======================= properties of the code ======================= *)
Quiescent == \A c \in Callers : call[c].pc = "idle"
PersistedVersion == IF Has(store, Key) THEN store[Key].ver ELSE 0
PersistedPayload == IF Has(store, Key) THEN store[Key].payload ELSE {}
Succeeded(c) == call[c].result.status = "success"

\* C1: whenever no call is in flight, the version of the persisted record
\* equals the number of atomicUpdate calls that returned successfully
C1_VersionCountsSuccesses == Quiescent => PersistedVersion = succeeded

C3_ResolvedSetIsNoFailure ==
  [][\A c \in Callers :
       WriteRecord(c, "undefined") => call'[c].pc = "verify"]_vars

\* C4: an attempt whose expected version differs from the version it read
\* writes nothing: it ends as a conflict, retried while retries are left
C4_ConflictNeverWrites ==
  [][\A c \in Callers, ctxValid \in BOOLEAN :
       (/\ ReadCurrent(c, ctxValid)
        /\ Has(versions, Key)
        /\ versions[Key] # CurrentData(ctxValid).ver)
       => /\ store' = store
          /\ versions' = versions
          /\ IF call[c].retryCount < call[c].maxRetries
             THEN call'[c].pc = "backoff"
             ELSE /\ call'[c].pc = "idle"
                  /\ call'[c].result.status = "conflict"]_vars

\* a call waits after a version conflict, the persisted record untouched
C4_Witness ==
  \E c \in Callers :
    /\ call[c].pc = "backoff"
    /\ Has(versions, Key)
    /\ versions[Key] # PersistedVersion

\* C5: acquireLock stores a lock only when no lock is stored for the key:
\* a stored lock is never replaced, it is only removed
C5_LockNeverReplaced ==
  [][(Has(locks', Key) /\ locks' # locks) => ~Has(locks, Key)]_vars

\* a caller polls while another caller's lock is stored
C5_Witness ==
  \E c \in Callers :
    /\ call[c].pc = "waitLock"
    /\ Has(locks, Key)
    /\ locks[Key].id # call[c].lockId

\* C6: with holders that never release, every stored lock is removed by its
\* timer; a caller that enters or polls acquireLock while no lock is stored
\* obtains the lock, and every waiting caller stops waiting
C6_AutoReleaseThenAcquire ==
  /\ \A id \in 1..MaxCalls :
       (Has(locks, Key) /\ locks[Key].id = id)
         ~> ~(Has(locks, Key) /\ locks[Key].id = id)
  /\ \A c \in Callers :
       (call[c].pc = "waitLock")
         ~> (call[c].pc = "read" \/ call[c].result.status = "lock_timeout")
  /\ [][\A c \in Callers :
         ((CallAtomicUpdate(c) \/ PollLock(c)) /\ ~Has(locks, Key))
           => /\ Has(locks', Key)
              /\ locks'[Key].id = call'[c].lockId
              /\ call'[c].pc = "read"]_vars

\* a caller holds the lock while an earlier holder, which never released
\* its lock, is still in its update
C6_Witness ==
  \E c, d \in Callers :
    /\ c # d
    /\ call[d].pc \in {"read", "update"}
    /\ call[c].pc \in {"read", "update"}
    /\ Has(locks, Key)
    /\ locks[Key].id = call[c].lockId
    /\ call[d].lockId < call[c].lockId

\* C7: every call returns or throws; a call never makes more than
\* maxRetries retries; an attempt that ends in a version conflict waits for
\* a backoff delay and tries again while retries are left, and otherwise
\* throws the conflict error
C7_BoundedRetries ==
  /\ \A c \in Callers : (call[c].pc # "idle") ~> (call[c].pc = "idle")
  /\ [](\A c \in Callers : call[c].retryCount <= call[c].maxRetries)
  /\ [][\A c \in Callers, ctxValid \in BOOLEAN :
         (ReadCurrent(c, ctxValid) /\ call'[c].pc # "update")
           => IF call[c].retryCount < call[c].maxRetries
              THEN /\ call'[c].pc = "backoff"
                   /\ call'[c].retryCount = call[c].retryCount + 1
                   /\ call'[c].wake > now
              ELSE /\ call'[c].pc = "idle"
                   /\ call'[c].result.status = "conflict"]_vars

\* a call has thrown the conflict error
C7_Witness ==
  \E c \in Callers :
    call[c].pc = "idle" /\ call[c].result.status = "conflict"

\* C8: when each caller has made one atomicUpdate call and both calls are
\* over, both returned success, with the versions 1 and 2, and the
\* persisted payload holds both callers' updates
C8_BothUpdatesSucceed ==
  (/\ started = NumCallers
   /\ \A c \in Callers :
        call[c].pc = "idle" /\ call[c].result.status # "none")
  => /\ \A c \in Callers : Succeeded(c)
     /\ {call[c].result.version : c \in Callers} = 1..NumCallers
     /\ PersistedPayload = Tags

C10_ValidationFailureAborts ==
  [][\A c \in Callers :
       /\ ApplyUpdate(c, FALSE)
            => /\ store' = store
               /\ versions' = versions
               /\ call'[c].pc = "idle"
               /\ call'[c].result.status = "validation"
               /\ ~(Has(locks', Key) /\ locks'[Key].id = call[c].lockId)
       /\ (\/ CallAtomicUpdate(c)
           \/ PollLock(c)
           \/ RetryAfterBackoff(c)
           \/ \E ctxValid \in BOOLEAN : ReadCurrent(c, ctxValid))
            => store' = store /\ versions' = versions]_vars

\* a call has thrown the validation error over a persisted record
C10_Witness ==
  \E c \in Callers :
    /\ call[c].pc = "idle"
    /\ call[c].result.status = "validation"
    /\ Has(store, Key)

\* C11: the persisted record changes only in the write step of atomicUpdate
C11_AtomicUpdateIsSoleWriter ==
  [][store' # store
       => \E c \in Callers, outcome \in SetOutcomes : WriteRecord(c, outcome)]_vars

\* C12: a request that has a terminal status never gets another terminal
\* status: later status updates, timers and sweeps leave its status alone
C12_TerminalStatusIsFinal ==
  [][\A requestId \in RequestIds :
       (/\ OHas(simpleActive, requestId)
        /\ OHas(simpleActive', requestId)
        /\ OGet(simpleActive', requestId).sequence
             = OGet(simpleActive, requestId).sequence
        /\ OGet(simpleActive, requestId).status \in UpdateStatuses)
       => OGet(simpleActive', requestId).status
            = OGet(simpleActive, requestId).status]_vars

\* the record of the registration with this sequence number is pending
PendingSequence(sequence) ==
  \E i \in 1..Len(activeRequests) :
    /\ activeRequests[i].val.sequence = sequence
    /\ activeRequests[i].val.status = "pending"

\* how many times the registration was given the status
TimesReached(sequence, status) ==
  Cardinality({i \in 1..Len(reached[sequence]) :
                 reached[sequence][i] = status})

\* C13: no request is pending for longer than the request timeout, and no
\* request is given the status timeout more than once, whatever the order
\* of its timer and the periodic sweep
C13_TimeoutExactlyOnce ==
  /\ \A i \in 1..Len(activeRequests) :
       activeRequests[i].val.status = "pending"
         => now - activeRequests[i].val.timestamp <= RequestTimeout
  /\ \A sequence \in DOMAIN reached : TimesReached(sequence, "timeout") <= 1

\* C14: every registered request that is pending eventually leaves pending,
\* also one registered after graceful shutdown was initiated
C14_PendingEventuallyLeaves ==
  \A sequence \in 1..MaxRegistrations :
    PendingSequence(sequence) ~> ~PendingSequence(sequence)

\* C15: registerRequest gives a sequence number greater than every
\* sequence number given before, in both trackers; no number is given twice
C15_SequenceStrictlyIncreasing ==
  [][\A requestId \in RequestIds :
       /\ RegisterRequest(requestId)
            => /\ \A sequence \in DOMAIN reached : requestSequence' > sequence
               /\ OGet(activeRequests', requestId).sequence = requestSequence'
       /\ SimpleRegisterRequest(requestId)
            => /\ \A sequence \in simpleAssigned : simpleSequence' > sequence
               /\ OGet(simpleActive', requestId).sequence = simpleSequence'
    ]_vars

C15_Witness ==
  /\ Cardinality(DOMAIN reached) >= 2
  /\ Cardinality(simpleAssigned) >= 2

\* C16: registerRequest with an id whose record is pending leaves the
\* record as it is (sequence number and creation time kept) and arms no timer
C16_DuplicateRegistrationKeepsRecord ==
  [][\A requestId \in RequestIds :
       (/\ RegisterRequest(requestId)
        /\ OHas(activeRequests, requestId)
        /\ OGet(activeRequests, requestId).status = "pending")
       => /\ OGet(activeRequests', requestId) = OGet(activeRequests, requestId)
          /\ requestTimers' = requestTimers]_vars

\* C17: hasActiveRequests() is true exactly when some tracked request has
\* the status pending
C17_ActiveIffPending ==
  HasActiveRequests(simpleActive)
    <=> \E i \in 1..Len(simpleActive) : simpleActive[i].val.status = "pending"

\* the call of initiateGracefulShutdown with this number is in its wait
InGraceWait(shutdownCall) == \E g \in graceWaits : g.call = shutdownCall

\* C18: initiateGracefulShutdown sets the shutdown flag, stops the periodic
\* cleanup and cancels every request that is pending; its wait is at most
\* the grace wait and ends; when it ends none of the requests it found
\* pending is pending, and no periodic sweep runs once shutdown is initiated
C18_GracefulShutdown ==
  /\ [][InitiateGracefulShutdown
         => /\ shutdownInitiated'
            /\ cleanupInterval' = <<>>
            /\ \A sequence \in DOMAIN reached :
                 PendingSequence(sequence)
                 => /\ ~PendingSequence(sequence)'
                    /\ reached'[sequence]
                         = Append(reached[sequence], "cancelled")]_vars
  /\ [][PerformSafeCleanup => ~shutdownInitiated]_vars
  /\ [][\A g \in graceWaits :
         GraceOver(g)
         => \A sequence \in g.cancelled : ~PendingSequence(sequence)']_vars
  /\ [](\A g \in graceWaits : g.due <= now + GraceWait)
  /\ \A shutdownCall \in 1..MaxShutdowns :
       InGraceWait(shutdownCall) ~> ~InGraceWait(shutdownCall)

C18_Witness ==
  /\ shutdownInitiated
  /\ graceWaits = {}
  /\ updates = 0
  /\ \E sequence \in DOMAIN reached : reached[sequence] = <<"cancelled">>

\* C19: a call of initiateGracefulShutdown after the first one changes no
\* request and nothing of the tracker's state
C19_ShutdownIdempotent ==
  [][(InitiateGracefulShutdown /\ shutdownInitiated)
       => UNCHANGED <<activeRequests, requestHistory, requestSequence,
                      cleanupInProgress, shutdownInitiated, cleanupInterval,
                      requestTimers, reached>>]_vars

\* the calls made so far with this hash all had this (method, url, body)
OnlyIdenticalCalls(request) ==
  \A other \in seenRequests \ {request} :
    GenerateRequestHash(other.url, other.method, other.body)
      # GenerateRequestHash(request.url, request.method, request.body)

\* C20: among calls with identical (method, url, body), a call returns true
\* exactly when the last accepted call (one that returned false) was made
\* less than the window ago: the first call returns false, repeats within
\* the window of the accepted call return true, and the first call at or
\* after the window returns false; dropped repeats do not move the window
C20_DedupWindowFromAcceptedCall ==
  [][\A request \in Requests :
       (ShouldDeduplicateRequest(request) /\ OnlyIdenticalCalls(request))
       => (dedupResult'
             <=> (Has(accepted, request)
                    /\ now - accepted[request] < DedupWindow))]_vars

C20_Witness ==
  /\ dedupCalls = 3
  /\ Cardinality(seenRequests) = 1
  /\ requestsDeduped = 1
  /\ dedupResult = FALSE

\* the ids of the records of an array
IdsOf(array) == {array[i].id : i \in 1..Len(array)}

\* no two records of the array have the same id
NoDuplicateIds(array) ==
  \A i, j \in 1..Len(array) : array[i].id = array[j].id => i = j

\* the index of the last record of the array with the id
LastIndex(array, id) ==
  CHOOSE i \in 1..Len(array) :
    /\ array[i].id = id
    /\ \A j \in (i + 1)..Len(array) : array[j].id # id

C22_MergeIsAdditive ==
  mergeCalled =>
    /\ IdsOf(merged) = IdsOf(mergeExisting) \cup IdsOf(mergeNewOrgs)
    /\ Len(merged) >= Len(mergeExisting)
    /\ \A i \in 1..Len(mergeExisting) :
         mergeExisting[i].id \notin IdsOf(mergeNewOrgs)
           => merged[i] = mergeExisting[i]

C22_Witness ==
  /\ mergeCalled
  /\ IdsOf(mergeExisting) \ IdsOf(mergeNewOrgs) # {}
  /\ IdsOf(mergeNewOrgs) \ IdsOf(mergeExisting) # {}

\* the array with its elements in the order a permutation gives
Permuted(array, p) == [i \in 1..Len(array) |-> array[p[i]]]

\* C23: mergeOrganizations returns the same array for every order of the
\* incoming records
C23_IncomingOrderIrrelevant ==
  mergeCalled =>
    \A p \in Permutations(1..Len(mergeNewOrgs)) :
      MergeOrganizations(mergeExisting, Permuted(mergeNewOrgs, p)) = merged

\* C24: when existing has no two records with the same id, neither has the
\* merged array, also when the incoming records repeat an id
C24_NoDuplicateIds ==
  (mergeCalled /\ NoDuplicateIds(mergeExisting)) => NoDuplicateIds(merged)

C24_Witness ==
  /\ mergeCalled
  /\ mergeExisting # <<>>
  /\ NoDuplicateIds(mergeExisting)
  /\ ~NoDuplicateIds(mergeNewOrgs)
  /\ IdsOf(mergeNewOrgs) \cap IdsOf(mergeExisting) = {}

\* C25: a call that returns success has written the version it read from
\* the persisted record plus one, also when the manager holds no version
\* for the key; the persisted version never decreases
C25_VersionIsReadPlusOne ==
  /\ [][\A c \in Callers :
         (call[c].pc = "verify" /\ Succeeded(c)')
         => call[c].nextVersion = call[c].cur.ver + 1]_vars
  /\ [][PersistedVersion' >= PersistedVersion]_vars

\* a call of atomicUpdate that has read the persisted record and has not
\* yet reached its releaseLock
InReadModifyWrite(c) ==
  /\ call[c].op = "atomicUpdate"
  /\ call[c].pc \in {"update", "write", "verify"}

\* C26: at no time are two atomicUpdate calls on the key both past their
\* read of the persisted record and before their own lock release, also
\* when the steps of an update take longer than the lock's timeout
C26_ReadModifyWriteSerialized ==
  \A c1, c2 \in Callers :
    (InReadModifyWrite(c1) /\ InReadModifyWrite(c2)) => c1 = c2

\* a call of atomicUpdate that has thrown
Failed(c) ==
  /\ call[c].pc = "idle"
  /\ call[c].result.status \notin {"none", "success"}

\* C27: after an atomicUpdate has failed, for whatever reason, the version
\* the manager expects for the key equals the persisted version, so that
\* the next call of the only writer meets no version conflict
C27_FailureKeepsExpectedVersion ==
  (Failed(SeqCaller) /\ Has(versions, Key))
    => versions[Key] = PersistedVersion

\* what the operations that write the key directly have put into it
DirectTags == {DirectTag(w) : w \in DirectOps}

\* C28: when the merge interleaves with the product-group update or the
\* custom-name edit, the record that is saved still holds what the other
\* operation has stored: no operation's change is lost
C28_InterleavedChangesKept ==
  [][\A w \in DirectOps :
       (direct[w].pc = "loaded" /\ direct'[w].pc = "idle")
       => (PersistedPayload \cap DirectTags) \subseteq PersistedPayload']_vars

\* C29: when the read-back after the write does not show the new version,
\* atomicUpdate throws in that same step: the call is over with the
\* verification error, it is not put into a backoff for a retry, nothing
\* more is written, and the lock it acquired is no longer stored
C29_VerifyFailureSurfaces ==
  [][\A c \in Callers :
       (/\ call[c].op = "atomicUpdate"
        /\ call[c].pc = "verify"
        /\ call'[c] # call[c]
        /\ ~Succeeded(c)')
       => /\ call'[c].pc = "idle"
          /\ call'[c].result.status = "verify_failed"
          /\ store' = store
          /\ ~(Has(locks', Key) /\ locks'[Key].id = call[c].lockId)]_vars

\* an atomicUpdate has thrown the verification error and no lock is left
C29_Witness ==
  \E c \in Callers :
    /\ Failed(c)
    /\ call[c].result.status = "verify_failed"
    /\ ~Has(locks, Key)

\* the lock ids with which releaseLock is called in a step: by a timer of
\* acquireLock that fires, or by a call that leaves its attempt
ReleasedWith(lockId) ==
  \/ \E t \in timers : t.id = lockId /\ t.due = now /\ t \notin timers'
  \/ \E c \in Callers :
       /\ call[c].lockId = lockId
       /\ call[c].pc \in {"read", "update", "write", "verify"}
       /\ call'[c].lockId # lockId

\* C30: releaseLock removes the stored lock only when it is called with the
\* id of that lock.  Called with any other id, as by the timer of an earlier
\* holder or by an earlier holder that finishes late, it returns false and
\* the current holder's lock stays as it is
C30_ReleaseOnlyOwnLock ==
  [][Has(locks, Key) =>
       /\ \A lockId \in 1..lockSeq :
            (ReleasedWith(lockId) /\ ~ReleaseLockReturns(locks, lockId))
            => locks' = locks
       /\ ReleasedWith(locks[Key].id)
            => (ReleaseLockReturns(locks, locks[Key].id) /\ ~Has(locks', Key))
       /\ (locks' # locks) => ReleasedWith(locks[Key].id)]_vars

\* an earlier holder, whose lock the timer took away, has finished its
\* attempt after the current holder read the record, and the current
\* holder's lock is still stored
C30_Witness ==
  \E c1, c2 \in Callers :
    /\ c1 # c2
    /\ call[c1].pc = "idle"
    /\ call[c1].result.status \in
         {"success", "write_failed", "store_error", "verify_failed"}
    /\ call[c2].pc \in {"update", "write", "verify"}
    /\ call[c2].expected = <<>>
    /\ Has(locks, Key)
    /\ locks[Key].id = call[c2].lockId

\* the versions of the backups in the ring
BackupVersions == {backups[i].version : i \in 1..Len(backups)}

\* C31: a rollback to a version of which the ring holds no backup (never
\* created, or evicted) throws at once and changes neither the persisted
\* record, nor the version counter, nor the ring, nor the locks; a rollback
\* that goes on to atomicUpdate has found its backup
C31_RollbackWithoutBackupFails ==
  [][\A c \in Callers :
       /\ (call[c].pc = "idle" /\ call'[c].op = "rollback")
          => call'[c].target \in BackupVersions
       /\ (call[c].pc = "idle" /\ call'[c] # call[c]
                               /\ call'[c].op # "atomicUpdate"
                               /\ call'[c].op # "rollback")
          => /\ call'[c].pc = "idle"
             /\ call'[c].result.status = "no_backup"
             /\ RollbackTargets \ BackupVersions # {}
             /\ UNCHANGED <<store, versions, backups, locks, timers,
                            pendingTransactions, lockSeq>>]_vars

\* the seventh call was a rollback to a version whose backup, made by one
\* of the first calls, had been pushed out of the full ring: it has failed
C31_Witness ==
  /\ Failed(SeqCaller)
  /\ call[SeqCaller].result.status = "no_backup"
  /\ PersistedVersion >= BackupRetention + 1
  /\ Len(backups) = BackupRetention
  /\ 0 \notin BackupVersions

\* the version of the backup that was created first among those in the
\* ring: the caller's writes follow one another, so versions grow with time
OldestBackupVersion ==
  CHOOSE v \in BackupVersions : \A w \in BackupVersions : v <= w

\* C32: the ring never holds more than backupRetention backups; a backup
\* that is created is in the ring afterwards, and when the ring was full
\* the backup that has left it is the oldest one
C32_RingEvictsOldest ==
  /\ [](Len(backups) <= BackupRetention)
  /\ [][(call[SeqCaller].pc = "read" /\ call'[SeqCaller].pc = "update")
        => /\ PersistedVersion \in BackupVersions'
           /\ Len(backups) = BackupRetention
              => BackupVersions' = (BackupVersions \cup {PersistedVersion})
                                     \ {OldestBackupVersion}]_vars

\* the entries of a Map
Entries(m) == {m[i] : i \in 1..Len(m)}

\* the sweep of RequestLifecycleManager changes only the records of the
\* requests that are pending and older than twice the timeout
SweepMarksOnlyStale ==
  [][PerformSafeCleanup =>
       \A e \in Entries(activeRequests) :
         /\ OHas(activeRequests', e.key)
         /\ OGet(activeRequests', e.key) # e.val
            => /\ IsStale(e.val)
               /\ OGet(activeRequests', e.key) =
                    [e.val EXCEPT !.status = "stale_cleanup"]]_vars

\* the same for the sweep of SimpleRequestLifecycleManager
SimpleSweepMarksOnlyStale ==
  [][SimplePerformSafeCleanup =>
       \A e \in Entries(simpleActive) :
         /\ OHas(simpleActive', e.key)
         /\ OGet(simpleActive', e.key) # e.val
            => /\ now - e.val.timestamp > SimpleStaleThreshold
               /\ e.val.status = "pending"
               /\ OGet(simpleActive', e.key) =
                    [e.val EXCEPT !.status = "stale_cleanup"]]_vars

\* C33: performSafeCleanup changes only the requests that are pending and
\* older than the stale threshold, which it marks stale_cleanup; every
\* other tracked request keeps its record, and every request stays tracked
C33_SweepKeepsRequestsTracked ==
  /\ SweepMarksOnlyStale
  /\ SimpleSweepMarksOnlyStale

\* the statuses after which a request is over
TerminalStatuses ==
  {"completed", "failed", "timeout", "cancelled", "stale_cleanup"}

\* the request with this sequence number has reached one of the statuses
ReachedOneOf(sequence, statuses) ==
  \E i \in 1..Len(reached[sequence]) : reached[sequence][i] \in statuses

\* a request that has reached one of the statuses is not in the active
\* set and has no timer armed
FinishedAreInactive(statuses) ==
  \A sequence \in DOMAIN reached :
    ReachedOneOf(sequence, statuses)
    => /\ \A e \in Entries(activeRequests) : e.val.sequence # sequence
       /\ \A t \in requestTimers : t.handle # sequence

\* C34: every request that reaches completed, failed, timeout, cancelled
\* or stale_cleanup is out of the active set with its timer cleared, is
\* put into the history in the step in which it reaches the status, and
\* the history never exceeds its maximum
C34_TerminalRequestsArchived ==
  /\ [](FinishedAreInactive(TerminalStatuses))
  /\ [](Len(requestHistory) <= MaxHistorySize)
  /\ [][\A sequence \in DOMAIN reached :
          (~ReachedOneOf(sequence, TerminalStatuses)
           /\ ReachedOneOf(sequence, TerminalStatuses)')
          => \E h \in Entries(requestHistory') : h.val.sequence = sequence]_vars

\* C35: a request-start event that the deduplicator drops is not registered
\* with the lifecycle tracker and takes no sequence number, of the tracker
\* or of the interceptor; an event that is not dropped is registered once,
\* as pending, with the tracker's next sequence number
C35_DroppedNeverRegistered ==
  [][\A request \in Requests :
       HandleRequest(request)
       => IF dedupResult'
          THEN /\ UNCHANGED <<simpleActive, simpleSequence, simpleAssigned>>
               /\ UNCHANGED <<interceptorSequence, interceptorActive>>
          ELSE /\ simpleSequence' = simpleSequence + 1
               /\ interceptorSequence' = interceptorSequence + 1
               /\ Len(simpleActive') = Len(simpleActive) + 1
               /\ OHas(simpleActive', dedupCalls')
               /\ OGet(simpleActive', dedupCalls').status = "pending"
               /\ OGet(simpleActive', dedupCalls').sequence
                    = simpleSequence + 1]_vars

\* the first event was accepted and registered, the second was dropped
C35_Witness ==
  /\ dedupCalls = 2
  /\ requestsDeduped = 1
  /\ dedupResult
  /\ inFlight = {1, 2}
  /\ simpleSequence = 1
  /\ OKeys(simpleActive) = <<1>>

\* C36: when the response of a request arrives that the lifecycle tracker
\* holds as pending, the tracker moves the request out of pending, to
\* completed or failed
C36_ResponseEndsPending ==
  [][\A requestId \in inFlight, statusCode \in StatusCodes :
       (/\ HandleResponse(requestId, statusCode)
        /\ OHas(simpleActive, requestId)
        /\ OGet(simpleActive, requestId).status = "pending")
       => /\ OHas(simpleActive', requestId)
             => OGet(simpleActive', requestId).status
                  \in {"completed", "failed"}]_vars

\* C37: when a timer of the tracker moves a request to timeout, at least
\* requestTimeout has passed since that request was registered, also when
\* the timer is the one of an earlier registration of the same id
C37_TimeoutNotBeforeItsTime ==
  [][\A t \in requestTimers :
       \A e \in Entries(activeRequests) :
         (/\ HandleRequestTimeout(t)
          /\ e.key = t.requestId
          /\ ReachedOneOf(e.val.sequence, {"timeout"})'
          /\ ~ReachedOneOf(e.val.sequence, {"timeout"}))
         => now - e.val.timestamp >= RequestTimeout]_vars

\* C38: the status-200 response of an accepted request that the tracker
\* still holds as pending makes the interceptor send the capture message
\* for that request, whatever the sweeps of the interceptor did in between,
\* and no request gets more than one message
C38_ResponseAlwaysNotifies ==
  /\ [][\A requestId \in inFlight :
          (/\ HandleResponse(requestId, 200)
           /\ OHas(simpleActive, requestId)
           /\ OGet(simpleActive, requestId).status = "pending")
          => notified' = Notify(notified, requestId)]_vars
  /\ [](\A requestId \in DOMAIN notified : notified[requestId] <= 1)

\* C39: every call of shouldDeduplicateRequest returns what it would have
\* returned had the sweep never run
C39_SweepIsTransparent ==
  [][\A request \in Requests :
       ShouldDeduplicateRequest(request)
       => (dedupResult'
             <=> IsRecent(unswept,
                          GenerateRequestHash(request.url, request.method,
                                              request.body)))]_vars

\* a sweep has removed an entry that would still be in the map without it,
\* and a call was made after that sweep
C39_Witness ==
  /\ dedupCleanup[1] < now + DedupCleanupInterval
  /\ DOMAIN unswept \ DOMAIN recentRequests # {}
  /\ \E hash \in DOMAIN recentRequests : recentRequests[hash] = now

\* the custom name of the stored tenant, Undefined if it has none
CustomNameOf(orgs, orgId, tenantId) ==
  LET groups == ProductGroupsOf(orgs, orgId)
      groupIndex == GroupOfTenant(groups, tenantId)
  IN IF groupIndex = 0 THEN Undefined
     ELSE groups[groupIndex]
            .tenants[FindIndex(groups[groupIndex].tenants, tenantId)]
            .customName

\* C40: when processTenantsData saves the tenants of a response for an
\* organization, every stored tenant of that organization whose id is among
\* the saved tenants keeps the custom name it had
C40_CustomNameCarriedOver ==
  [][\A currentOrgId \in {Some(orgId) : orgId \in OrgIds},
        nodes \in NodeArrays :
       ProcessTenantsData(currentOrgId, nodes)
       => \A tenantId \in TenantIds :
            (/\ GroupOfTenant(ProductGroupsOf(organizations,
                                              currentOrgId[1]),
                              tenantId) >= 1
             /\ GroupOfTenant(ProductGroupsOf(organizations',
                                              currentOrgId[1]),
                              tenantId) >= 1)
            => CustomNameOf(organizations', currentOrgId[1], tenantId)
                 = CustomNameOf(organizations, currentOrgId[1], tenantId)]_vars

====
